---- MODULE Spec2Model ----
(***************************************************************************)
(* Model of manage-preview.py: the PR preview orchestrator that creates,   *)
(* polls, exposes, deploys and deletes one Lightsail instance per pull      *)
(* request.  Two copies of the script exist; they differ in                 *)
(* create_instance (userData) and deploy_application and are selected by    *)
(* the variable impl.                                                       *)
(*                                                                          *)
(* Python strings that the code inspects character by character (the        *)
(* repository identifier, the instance name) are sequences of one-character *)
(* strings; Str flattens such a sequence to a TLA+ string.                  *)
(***************************************************************************)
EXTENDS Integers, Sequences, FiniteSets, TLC

(* ---------------------------------------------------------------------- *)
(* Bounds and program constants                                            *)
(* ---------------------------------------------------------------------- *)

\* number of invocations of the script in one behaviour
MaxInvocations == 2

\* [:63] in get_instance_name ("Lightsail name limit")
NameLimit == 63
\* wait_for_instance(..., max_wait=300)
MaxWait == 300
\* time.sleep(10) in wait_for_instance
Interval == 10

\* Python's None (an option that was not given on the command line)
None == "<None>"

\* the two copies of the script
Impls == {"upload", "userdata"}

(* ---------------------------------------------------------------------- *)
(* Strings                                                                 *)
(* ---------------------------------------------------------------------- *)

RECURSIVE Str(_)
Str(s) == IF s = <<>> THEN "" ELSE Head(s) \o Str(Tail(s))

Min(a, b) == IF a < b THEN a ELSE b

Digit(d) == <<"0", "1", "2", "3", "4", "5", "6", "7", "8", "9">>[d + 1]

RECURSIVE NatToStr(_)
NatToStr(n) == IF n < 10 THEN <<Digit(n)>>
               ELSE NatToStr(n \div 10) \o <<Digit(n % 10)>>

\* str(pr_number) for a Python int
IntToStr(n) == IF n < 0 THEN <<"-">> \o NatToStr(0 - n) ELSE NatToStr(n)

\* index of the last occurrence of c in s, 0 when there is none
RECURSIVE LastIndexOf(_, _, _)
LastIndexOf(s, c, i) == IF i = 0 THEN 0
                        ELSE IF s[i] = c THEN i
                        ELSE LastIndexOf(s, c, i - 1)

\* s.split(sep)[-1]
LastSegment(s, sep) == SubSeq(s, LastIndexOf(s, sep, Len(s)) + 1, Len(s))

\* s.replace(old, new) for one-character old and new
Replace(s, old, new) == [i \in 1..Len(s) |-> IF s[i] = old THEN new ELSE s[i]]

\* s[:n]
Prefix(s, n) == SubSeq(s, 1, Min(n, Len(s)))

UpperLetters == <<"A", "B", "C", "D", "E", "F", "G", "H", "I", "J", "K", "L", "M",
                  "N", "O", "P", "Q", "R", "S", "T", "U", "V", "W", "X", "Y", "Z">>
LowerLetters == <<"a", "b", "c", "d", "e", "f", "g", "h", "i", "j", "k", "l", "m",
                  "n", "o", "p", "q", "r", "s", "t", "u", "v", "w", "x", "y", "z">>

\* s.lower()
Lower(s) == [i \in 1..Len(s) |->
                IF \E k \in 1..26 : UpperLetters[k] = s[i]
                THEN LowerLetters[CHOOSE k \in 1..26 : UpperLetters[k] = s[i]]
                ELSE s[i]]

get_instance_name_lower(pr_number, repo_name) ==
    LET clean_repo == Lower(Replace(Replace(LastSegment(repo_name, "/"), "_", "-"),
                                    ".", "-"))
    IN  Prefix(<<"p", "r", "-">> \o IntToStr(pr_number) \o <<"-">> \o clean_repo,
               NameLimit)

get_instance_name_keep_dots(pr_number, repo_name) ==
    LET clean_repo == Replace(LastSegment(repo_name, "/"), "_", "-")
    IN  Prefix(<<"p", "r", "-">> \o IntToStr(pr_number) \o <<"-">> \o clean_repo,
               NameLimit)

get_instance_name_cut_after(pr_number, repo_name) ==
    LET clean_repo == Replace(Replace(LastSegment(repo_name, "/"), "_", "-"),
                              ".", "-")
    IN  <<"p", "r", "-">> \o IntToStr(pr_number) \o <<"-">>
            \o Prefix(clean_repo, NameLimit)

\* PreviewManager.get_instance_name
get_instance_name(pr_number, repo_name) ==
    LET clean_repo == Replace(Replace(LastSegment(repo_name, "/"), "_", "-"),
                              ".", "-")
    IN  Prefix(<<"p", "r", "-">> \o IntToStr(pr_number) \o <<"-">> \o clean_repo,
               NameLimit)

(* ---------------------------------------------------------------------- *)
(* Inputs                                                                  *)
(* ---------------------------------------------------------------------- *)

\* "acme/widgets"
RepoWidgets == <<"a", "c", "m", "e", "/", "w", "i", "d", "g", "e", "t", "s">>
\* "my-org/My_Repo.App"
RepoMyRepo == <<"m", "y", "-", "o", "r", "g", "/",
                "M", "y", "_", "R", "e", "p", "o", ".", "A", "p", "p">>

\* (--pr-number, --repo-name) pairs the invocations are run with
Requests == {<<7, RepoWidgets>>, <<42, RepoMyRepo>>}

\* (--branch, --commit-sha) pairs; None is an option that was not given
Revisions == {<<"feature-x", "abcdef1">>, <<"main", "1234567">>,
              <<None, "abcdef1">>, <<"feature-x", None>>, <<"", "abcdef1">>}

\* seconds one provider call takes during readiness polling
Latencies == {0, 5}

\* instance names the provider can be asked about
Names == {get_instance_name(r[1], r[2]) : r \in Requests}

\* the public address the provider assigns to each instance
AddressOf(n) == IF n = get_instance_name(7, RepoWidgets) THEN "10.0.0.5"
                ELSE "10.0.0.9"

Procs == {1, 2}

(* ---------------------------------------------------------------------- *)
(* State                                                                   *)
(* ---------------------------------------------------------------------- *)

VARIABLES
    impl,        \* which copy of the script is run
    instances,   \* the provider's instances, by name
    proc,        \* the running script processes
    outputFile,  \* lines of the file $GITHUB_OUTPUT names
    tmpDeploy,   \* content of /tmp/deploy.sh: <<>> or <<repo_name, branch>>
    prev,        \* summary of the invocation that ended before the current one
    ninv         \* invocations started so far

vars == <<impl, instances, proc, outputFile, tmpDeploy, prev, ninv>>

\* no 'publicIpAddress' key in the instance
NoIp == ""

NoInstance == [state |-> "absent", ip |-> NoIp, branchTag |-> "",
               userData |-> <<>>, deployed |-> <<>>]

\* provider calls of one invocation; get counts create_preview's own
\* get_instance calls, wait_for_instance's are counted in polls
ZeroCalls == [get |-> 0, create |-> 0, ports |-> 0, delete |-> 0]

IdleProc == [pc |-> "idle", action |-> "", pr |-> 0, repo |-> <<>>,
             branch |-> None, sha |-> None, ghOut |-> FALSE, latency |-> 0,
             name |-> <<>>, instance_ip |-> None, ipState |-> "",
             elapsed |-> 0, polls |-> 0, firstReady |-> 0, pollErr |-> "",
             overlapped |-> FALSE,
             waited |-> "", exit |-> -1, exc |-> "", calls |-> ZeroCalls,
             existed |-> FALSE, createResp |-> "", portsResp |-> "",
             delResp |-> "", deployRun |-> FALSE, url |-> "", outStart |-> 0]

NoPrev == [action |-> "", pr |-> 0, repo |-> <<>>, exit |-> -1,
           creates |-> 0, createResp |-> ""]

Init ==
    /\ impl \in Impls
    /\ instances = [n \in Names |-> NoInstance]
    /\ proc = [p \in Procs |-> IdleProc]
    /\ outputFile = <<>>
    /\ tmpDeploy = <<>>
    /\ prev = NoPrev
    /\ ninv = 0

(* ---------------------------------------------------------------------- *)
(* The cloud provider                                                      *)
(* ---------------------------------------------------------------------- *)

Present(n) == instances[n].state # "absent"

\* lightsail.get_instance: the instance, NotFoundException, or another error
GetInstance(n) ==
    {[kind |-> "error", state |-> "", ip |-> NoIp]} \cup
    (IF Present(n)
     THEN {[kind |-> "ok", state |-> instances[n].state, ip |-> instances[n].ip]}
     ELSE {[kind |-> "notfound", state |-> "", ip |-> NoIp]})

\* lightsail.create_instances: accepted, or rejected (always when the name is taken)
CreateInstances(n) == IF Present(n) THEN {"error"} ELSE {"ok", "error"}

\* lightsail.put_instance_public_ports
PutInstancePublicPorts(n) == IF Present(n) THEN {"ok", "error"} ELSE {"error"}

\* lightsail.delete_instance
DeleteInstanceCall(n) == IF Present(n) THEN {"ok", "error"} ELSE {"notfound", "error"}

\* the provider assigns a public address to a pending or running instance
ProviderAssignIp(n) ==
    /\ Present(n)
    /\ instances[n].ip = NoIp
    /\ instances' = [instances EXCEPT ![n].ip = AddressOf(n)]
    /\ UNCHANGED <<impl, proc, outputFile, tmpDeploy, prev, ninv>>

\* the instance boots: pending -> running; its userData script, if any, runs
ProviderRun(n) ==
    /\ instances[n].state = "pending"
    /\ instances' = [instances EXCEPT ![n].state = "running",
                                      ![n].deployed = instances[n].userData]
    /\ UNCHANGED <<impl, proc, outputFile, tmpDeploy, prev, ninv>>

(* ---------------------------------------------------------------------- *)
(* The script                                                              *)
(* ---------------------------------------------------------------------- *)

\* Python truthiness of an optional string argument
Falsy(x) == x = None \/ x = ""

UsageError_branch_only(action, branch, sha) ==
    action = "create" /\ Falsy(branch)

\* main: "if not args.branch or not args.commit_sha"
UsageError(action, branch, sha) ==
    action = "create" /\ (Falsy(branch) \/ Falsy(sha))

\* sys.exit(code); exc names the exception that ended the process, if any
Exit(r, code, exc) == [r EXCEPT !.pc = "done", !.exit = code, !.exc = exc]

\* main: sys.exit(0 if success else 1)
ExitCode(success) == IF success THEN 0 ELSE 1

\* an exception nobody catches: traceback, exit status 1
Crash(r, exc) == Exit(r, 1, exc)

Summary(r) == [action |-> r.action, pr |-> r.pr, repo |-> r.repo,
               exit |-> r.exit, creates |-> r.calls.create,
               createResp |-> r.createResp]

Dispatch_always_create(action) == "exists"

\* main: "if args.action == 'create': ... else: # delete"
Dispatch(action) == IF action = "create" THEN "exists" ELSE "delete"

\* the process main makes of its arguments, up to the first provider call
MainStep(action, req, rev, ghOut, latency, outStart) ==
    LET r == [IdleProc EXCEPT !.action = action, !.pr = req[1],
                              !.repo = req[2], !.branch = rev[1],
                              !.sha = rev[2], !.ghOut = ghOut,
                              !.latency = latency, !.outStart = outStart]
    IN  IF UsageError(action, rev[1], rev[2])
        THEN Exit(r, 1, "")
        ELSE [r EXCEPT !.name = get_instance_name(req[1], req[2]),
                       !.pc = Dispatch(action)]

\* main up to the first provider call: parse the arguments, check them,
\* enter create_preview or delete_preview and derive the instance name
Main(p, action, req, rev, ghOut, latency) ==
    /\ proc[p].pc \in {"idle", "done"}
    /\ ninv < MaxInvocations
    /\ ninv' = ninv + 1
    /\ prev' = IF proc[p].pc = "done" THEN Summary(proc[p]) ELSE prev
    /\ proc' = [proc EXCEPT ![p] =
           MainStep(action, req, rev, ghOut, latency, Len(outputFile))]
    /\ UNCHANGED <<impl, instances, outputFile, tmpDeploy>>

Called(r, call) == [r EXCEPT !.calls[call] = r.calls[call] + 1]

instance_exists_never(resp) ==
    CASE resp.kind = "error" -> "raise"
      [] OTHER -> "False"

\* PreviewManager.instance_exists: True, False, or the exception it lets through
instance_exists(resp) ==
    CASE resp.kind = "ok" -> "True"
      [] resp.kind = "notfound" -> "False"
      [] OTHER -> "raise"

\* create_preview: "if self.instance_exists(instance_name)", for get_instance's answer
ExistsStep(r0, resp) ==
    LET r == Called(r0, "get")
        found == instance_exists(resp)
    IN  CASE found = "True" -> [r EXCEPT !.existed = TRUE, !.pc = "get_ip"]
          [] found = "False" -> [r EXCEPT !.pc = "create"]
          [] OTHER -> Crash(r, "ClientError")

InstanceExists(p) ==
    /\ proc[p].pc = "exists"
    /\ \E resp \in GetInstance(proc[p].name) :
         proc' = [proc EXCEPT ![p] = ExistsStep(proc[p], resp)]
    /\ UNCHANGED <<impl, instances, outputFile, tmpDeploy, prev, ninv>>

\* create_preview, the instance exists:
\* instance_ip = get_instance(...)['instance']['publicIpAddress']
AddressStep(r0, resp) ==
    LET r == Called(r0, "get")
    IN  CASE resp.kind = "notfound" -> Crash(r, "NotFoundException")
          [] resp.kind = "error" -> Crash(r, "ClientError")
          [] resp.ip = NoIp -> Crash(r, "KeyError")
          [] OTHER -> [r EXCEPT !.instance_ip = resp.ip,
                                !.ipState = resp.state, !.pc = "deploy"]

ExistingAddress(p) ==
    /\ proc[p].pc = "get_ip"
    /\ \E resp \in GetInstance(proc[p].name) :
         proc' = [proc EXCEPT ![p] = AddressStep(proc[p], resp)]
    /\ UNCHANGED <<impl, instances, outputFile, tmpDeploy, prev, ninv>>

\* the userData argument of create_instances: only the "userdata" copy passes one
UserData(i, r) == IF i = "userdata" THEN <<r.repo, r.branch>> ELSE <<>>

\* the instance the provider sets up for an accepted create_instances call
NewInstance(i, r) == [state |-> "pending", ip |-> NoIp, branchTag |-> r.branch,
                      userData |-> UserData(i, r), deployed |-> <<>>]

AfterCreate_goes_on(r, resp) == [r EXCEPT !.pc = "wait", !.elapsed = 0]

\* create_preview: "if not self.create_instance(...): sys.exit(1)"
AfterCreate(r, resp) ==
    IF resp = "ok" THEN [r EXCEPT !.pc = "wait", !.elapsed = 0]
    ELSE Exit(r, 1, "")

CreateStep(r0, resp) ==
    AfterCreate([Called(r0, "create") EXCEPT !.createResp = resp], resp)

\* create_instance, and create_preview's exit when it returns False
CreateInstance(p) ==
    /\ proc[p].pc = "create"
    /\ \E resp \in CreateInstances(proc[p].name) :
         /\ proc' = [proc EXCEPT ![p] = CreateStep(proc[p], resp)]
         /\ instances' =
               IF resp = "ok"
               THEN [instances EXCEPT ![proc[p].name] = NewInstance(impl, proc[p])]
               ELSE instances
    /\ UNCHANGED <<impl, outputFile, tmpDeploy, prev, ninv>>

\* the provider reports the instance running with a public address
ReportsReady(resp) == resp.kind = "ok" /\ resp.state = "running" /\ resp.ip # NoIp

IsReady_any_state(resp) == resp.kind = "ok" /\ resp.ip # NoIp

\* wait_for_instance: state == 'running' and 'publicIpAddress' in instance
IsReady(resp) == resp.kind = "ok" /\ resp.state = "running" /\ resp.ip # NoIp

WithinBudget_inclusive(elapsed) == elapsed <= MaxWait

\* wait_for_instance: while (time.time() - start_time) < max_wait
WithinBudget(elapsed) == elapsed < MaxWait

WaitTimedOut_goes_on(r) == [r EXCEPT !.waited = "timeout", !.pc = "firewall"]

\* wait_for_instance returns None and create_preview exits: "if not instance_ip"
WaitTimedOut(r) == Exit([r EXCEPT !.waited = "timeout"], 1, "")

Sleep_aborts_on_error(r, resp) ==
    IF resp.kind = "ok" THEN [r EXCEPT !.elapsed = r.elapsed + Interval]
    ELSE Crash(r, "ClientError")

Sleep_not_on_error(r, resp) ==
    IF resp.kind = "ok" THEN [r EXCEPT !.elapsed = r.elapsed + Interval] ELSE r

\* wait_for_instance: time.sleep(10), after an answer that is not ready and
\* in the except branch alike
Sleep(r, resp) == [r EXCEPT !.elapsed = r.elapsed + Interval]

\* one turn of wait_for_instance's loop for get_instance's answer
WaitStep(r0, resp) ==
    LET r == [r0 EXCEPT
                 !.polls = r0.polls + 1,
                 !.firstReady = IF r0.firstReady = 0 /\ ReportsReady(resp)
                                THEN r0.polls + 1 ELSE r0.firstReady,
                 !.elapsed = r0.elapsed + r0.latency]
    IN  IF IsReady(resp)
        THEN [r EXCEPT !.instance_ip = resp.ip, !.ipState = resp.state,
                       !.waited = "ready", !.pc = "firewall"]
        ELSE Sleep(r, resp)

\* one turn of wait_for_instance's loop (query, then return or sleep), or its
\* end on timeout with create_preview's exit
WaitForInstance(p) ==
    /\ proc[p].pc = "wait"
    /\ IF WithinBudget(proc[p].elapsed)
       THEN \E resp \in GetInstance(proc[p].name) :
              proc' = [proc EXCEPT ![p] = WaitStep(proc[p], resp)]
       ELSE proc' = [proc EXCEPT ![p] = WaitTimedOut(proc[p])]
    /\ UNCHANGED <<impl, instances, outputFile, tmpDeploy, prev, ninv>>

\* history: the kind of the last query of the wait under way that failed
Rejected(r, resp) ==
    [r EXCEPT !.pollErr = IF resp.kind = "ok" THEN r.pollErr ELSE resp.kind]

\* WaitForInstance, keeping the history of failed queries
WaitForInstanceLogged(p) ==
    /\ proc[p].pc = "wait"
    /\ IF WithinBudget(proc[p].elapsed)
       THEN \E resp \in GetInstance(proc[p].name) :
              proc' = [proc EXCEPT ![p] = WaitStep(Rejected(proc[p], resp), resp)]
       ELSE proc' = [proc EXCEPT ![p] = WaitTimedOut(proc[p])]
    /\ UNCHANGED <<impl, instances, outputFile, tmpDeploy, prev, ninv>>

\* wait_for_instance has returned: its locals and the record of its queries go
EndWait(r) == [r EXCEPT !.elapsed = 0, !.polls = 0, !.firstReady = 0,
                        !.pollErr = ""]

AfterFirewall_fatal(r, resp) ==
    IF resp = "ok" THEN [r EXCEPT !.pc = "deploy"] ELSE Exit(r, 1, "")

\* create_preview after configure_firewall, whose result it ignores
AfterFirewall(r, resp) == [r EXCEPT !.pc = "deploy"]

FirewallStep(r0, resp) ==
    AfterFirewall([Called(EndWait(r0), "ports") EXCEPT !.portsResp = resp], resp)

\* configure_firewall, called from create_preview
ConfigureFirewall(p) ==
    /\ proc[p].pc = "firewall"
    /\ \E resp \in PutInstancePublicPorts(proc[p].name) :
         proc' = [proc EXCEPT ![p] = FirewallStep(proc[p], resp)]
    /\ UNCHANGED <<impl, instances, outputFile, tmpDeploy, prev, ninv>>

deploy_application_upload_raises(i, r) ==
    IF i = "upload" THEN Crash(r, "OSError")
    ELSE [r EXCEPT !.deployRun = TRUE, !.pc = "report"]

\* deploy_application in copy i: both copies return True and make no provider call
deploy_application(i, r) == [r EXCEPT !.deployRun = TRUE, !.pc = "report"]

\* /tmp/deploy.sh after deploy_application: only the "upload" copy writes it
TmpDeployAfter(i, r, old) == IF i = "upload" THEN <<r.repo, r.branch>> ELSE old

\* deploy_application: the "upload" copy writes the script to /tmp/deploy.sh and
\* sends nothing; the "userdata" copy only sleeps.  Neither touches the instance.
DeployApplication(p) ==
    /\ proc[p].pc = "deploy"
    /\ proc' = [proc EXCEPT ![p] = deploy_application(impl, proc[p])]
    /\ tmpDeploy' = TmpDeployAfter(impl, proc[p], tmpDeploy)
    /\ UNCHANGED <<impl, instances, outputFile, prev, ninv>>

OutputLines_no_slash(r) ==
    << "preview_url=http://" \o r.instance_ip,
       "instance_ip=" \o r.instance_ip,
       "instance_name=" \o Str(r.name) >>

\* the three lines create_preview writes to $GITHUB_OUTPUT
OutputLines(r) ==
    << "preview_url=http://" \o r.instance_ip \o "/",
       "instance_ip=" \o r.instance_ip,
       "instance_name=" \o Str(r.name) >>

\* create_preview prints the URL and returns True; main exits
ReportStep(r) ==
    Exit([r EXCEPT !.url = "http://" \o r.instance_ip \o "/"], ExitCode(TRUE), "")

\* end of create_preview: print the URL, append the outputs, return True; main exits
Report(p) ==
    /\ proc[p].pc = "report"
    /\ proc' = [proc EXCEPT ![p] = ReportStep(proc[p])]
    /\ outputFile' = IF proc[p].ghOut THEN outputFile \o OutputLines(proc[p])
                     ELSE outputFile
    /\ UNCHANGED <<impl, instances, tmpDeploy, prev, ninv>>

\* history: a delete call for name n is issued while invocation r is under way
Overlapped(r, n) ==
    IF r.pc \notin {"idle", "done"} /\ r.name = n
    THEN [r EXCEPT !.overlapped = TRUE] ELSE r

DeleteSucceeds_strict(resp) == resp = "ok"

\* delete_instance's return value for the provider's answer
DeleteSucceeds(resp) == resp \in {"ok", "notfound"}

DeleteStep(r0, resp) ==
    Exit([Called(r0, "delete") EXCEPT !.delResp = resp],
         ExitCode(DeleteSucceeds(resp)), "")

\* delete_preview -> delete_instance, and main's exit
DeleteInstance(p) ==
    /\ proc[p].pc = "delete"
    /\ \E resp \in DeleteInstanceCall(proc[p].name) :
         /\ proc' = [q \in Procs |->
                      IF q = p THEN DeleteStep(proc[p], resp)
                      ELSE Overlapped(proc[q], proc[p].name)]
         /\ instances' = IF resp = "ok"
                         THEN [instances EXCEPT ![proc[p].name] = NoInstance]
                         ELSE instances
    /\ UNCHANGED <<impl, outputFile, tmpDeploy, prev, ninv>>

(* ---------------------------------------------------------------------- *)
(* Specification: invocations one after the other (the CI platform          *)
(* serializes the pipeline runs)                                            *)
(* ---------------------------------------------------------------------- *)

Step(p) ==
    \/ InstanceExists(p)
    \/ ExistingAddress(p)
    \/ CreateInstance(p)
    \/ WaitForInstance(p)
    \/ ConfigureFirewall(p)
    \/ DeployApplication(p)
    \/ Report(p)
    \/ DeleteInstance(p)

\* Step, keeping the history of failed readiness queries
StepLogged(p) ==
    \/ InstanceExists(p)
    \/ ExistingAddress(p)
    \/ CreateInstance(p)
    \/ WaitForInstanceLogged(p)
    \/ ConfigureFirewall(p)
    \/ DeployApplication(p)
    \/ Report(p)
    \/ DeleteInstance(p)

Provider ==
    \E n \in Names : ProviderAssignIp(n) \/ ProviderRun(n)

Invoke(p) ==
    \E action \in {"create", "delete"}, req \in Requests, rev \in Revisions,
       ghOut \in BOOLEAN, latency \in Latencies :
        Main(p, action, req, rev, ghOut, latency)

Next ==
    \/ Invoke(1)
    \/ Step(1)
    \/ Provider

Spec == Init /\ [][Next]_vars

(* ---------------------------------------------------------------------- *)
(* Specification: a create and a delete pipeline run side by side          *)
(* ---------------------------------------------------------------------- *)

\* the create pipeline: --branch and --commit-sha given, GITHUB_OUTPUT set
InvokeCreate(p) ==
    \E req \in Requests, latency \in Latencies :
        Main(p, "create", req, <<"feature-x", "abcdef1">>, TRUE, latency)

\* the delete pipeline, which passes neither --branch nor --commit-sha
InvokeDelete(p) ==
    \E req \in Requests : Main(p, "delete", req, <<None, None>>, FALSE, 0)

NextConc ==
    \/ InvokeCreate(1)
    \/ InvokeDelete(2)
    \/ StepLogged(1)
    \/ StepLogged(2)
    \/ Provider

SpecConc == Init /\ [][NextConc]_vars

(* ---------------------------------------------------------------------- *)
(* Specification: the two copies of the script run side by side on the     *)
(* same arguments and the same provider answers.  Process 1 runs           *)
(* src/pr-preview-system/scripts/manage-preview.py, process 2 runs         *)
(* src/scripts/manage-preview.py.  The provider's state follows the calls  *)
(* of process 1; the calls of process 2 differ from them at most in the    *)
(* userData argument, which no answer of the provider depends on.          *)
(* ---------------------------------------------------------------------- *)

Both(r1, r2) == [proc EXCEPT ![1] = r1, ![2] = r2]

\* both copies are about to make the same call
InStep(pc) == proc[1].pc = pc /\ proc[2].pc = pc /\ proc[2].name = proc[1].name

\* main of both copies, on the same command line and environment
PairInvoke ==
    \E action \in {"create", "delete"}, req \in Requests,
       rev \in {<<"feature-x", "abcdef1">>, <<None, "abcdef1">>},
       ghOut \in BOOLEAN, latency \in {0} :
        /\ proc[1].pc \in {"idle", "done"} /\ proc[2].pc \in {"idle", "done"}
        /\ ninv < MaxInvocations
        /\ ninv' = ninv + 1
        /\ prev' = IF proc[1].pc = "done" THEN Summary(proc[1]) ELSE prev
        /\ proc' = Both(MainStep(action, req, rev, ghOut, latency, Len(outputFile)),
                        MainStep(action, req, rev, ghOut, latency, Len(outputFile)))
        /\ UNCHANGED <<impl, instances, outputFile, tmpDeploy>>

PairExists ==
    /\ InStep("exists")
    /\ \E resp \in GetInstance(proc[1].name) :
         proc' = Both(ExistsStep(proc[1], resp), ExistsStep(proc[2], resp))
    /\ UNCHANGED <<impl, instances, outputFile, tmpDeploy, prev, ninv>>

PairAddress ==
    /\ InStep("get_ip")
    /\ \E resp \in GetInstance(proc[1].name) :
         proc' = Both(AddressStep(proc[1], resp), AddressStep(proc[2], resp))
    /\ UNCHANGED <<impl, instances, outputFile, tmpDeploy, prev, ninv>>

PairCreate ==
    /\ InStep("create")
    /\ \E resp \in CreateInstances(proc[1].name) :
         /\ proc' = Both(CreateStep(proc[1], resp), CreateStep(proc[2], resp))
         /\ instances' =
               IF resp = "ok"
               THEN [instances EXCEPT ![proc[1].name] = NewInstance("upload", proc[1])]
               ELSE instances
    /\ UNCHANGED <<impl, outputFile, tmpDeploy, prev, ninv>>

PairWait ==
    /\ InStep("wait")
    /\ proc[2].elapsed = proc[1].elapsed
    /\ IF WithinBudget(proc[1].elapsed)
       THEN \E resp \in GetInstance(proc[1].name) :
              proc' = Both(WaitStep(proc[1], resp), WaitStep(proc[2], resp))
       ELSE proc' = Both(WaitTimedOut(proc[1]), WaitTimedOut(proc[2]))
    /\ UNCHANGED <<impl, instances, outputFile, tmpDeploy, prev, ninv>>

PairFirewall ==
    /\ InStep("firewall")
    /\ \E resp \in PutInstancePublicPorts(proc[1].name) :
         proc' = Both(FirewallStep(proc[1], resp), FirewallStep(proc[2], resp))
    /\ UNCHANGED <<impl, instances, outputFile, tmpDeploy, prev, ninv>>

PairDeploy ==
    /\ InStep("deploy")
    /\ proc' = Both(deploy_application("upload", proc[1]),
                    deploy_application("userdata", proc[2]))
    /\ tmpDeploy' = TmpDeployAfter("upload", proc[1], tmpDeploy)
    /\ UNCHANGED <<impl, instances, outputFile, prev, ninv>>

PairReport ==
    /\ InStep("report")
    /\ proc' = Both(ReportStep(proc[1]), ReportStep(proc[2]))
    /\ outputFile' = IF proc[1].ghOut THEN outputFile \o OutputLines(proc[1])
                     ELSE outputFile
    /\ UNCHANGED <<impl, instances, tmpDeploy, prev, ninv>>

PairDelete ==
    /\ InStep("delete")
    /\ \E resp \in DeleteInstanceCall(proc[1].name) :
         /\ proc' = Both(DeleteStep(proc[1], resp), DeleteStep(proc[2], resp))
         /\ instances' = IF resp = "ok"
                         THEN [instances EXCEPT ![proc[1].name] = NoInstance]
                         ELSE instances
    /\ UNCHANGED <<impl, outputFile, tmpDeploy, prev, ninv>>

NextPair ==
    \/ PairInvoke
    \/ PairExists
    \/ PairAddress
    \/ PairCreate
    \/ PairWait
    \/ PairFirewall
    \/ PairDeploy
    \/ PairReport
    \/ PairDelete
    \/ Provider

SpecPair == Init /\ [][NextPair]_vars

(* ---------------------------------------------------------------------- *)
(* Specification: the pipelines of the serial case, with progress          *)
(* ---------------------------------------------------------------------- *)

NextFair ==
    \/ InvokeCreate(1)
    \/ InvokeDelete(1)
    \/ StepLogged(1)
    \/ Provider

\* each provider call returns and the interpreter keeps running the script:
\* a step of the invocation that can be taken is eventually taken
SpecFair == Init /\ [][NextFair]_vars /\ WF_vars(StepLogged(1))

(* ---------------------------------------------------------------------- *)
(* Specification: the name derivation alone, on a wider set of inputs       *)
(* ---------------------------------------------------------------------- *)

RECURSIVE Repeat(_, _)
Repeat(s, n) == IF n = 0 THEN <<>> ELSE s \o Repeat(s, n - 1)

\* "other/widgets"
RepoOtherWidgets == <<"o", "t", "h", "e", "r", "/",
                      "w", "i", "d", "g", "e", "t", "s">>
\* "widgets"
RepoNoOwner == <<"w", "i", "d", "g", "e", "t", "s">>
\* "acme/my.app", "acme/my_app", "acme/my-app"
RepoDot == <<"a", "c", "m", "e", "/", "m", "y", ".", "a", "p", "p">>
RepoUnderscore == <<"a", "c", "m", "e", "/", "m", "y", "_", "a", "p", "p">>
RepoDash == <<"a", "c", "m", "e", "/", "m", "y", "-", "a", "p", "p">>
\* "org/team/repo"
RepoNested == <<"o", "r", "g", "/", "t", "e", "a", "m", "/", "r", "e", "p", "o">>
\* "acme/my app+v2"
RepoOddChars == <<"a", "c", "m", "e", "/", "m", "y", " ", "a", "p", "p", "+", "v", "2">>
\* "o/" followed by 70 letters, then "x" or "y"
RepoLongX == <<"o", "/">> \o Repeat(<<"a", "b", "c", "d", "e">>, 14) \o <<"x">>
RepoLongY == <<"o", "/">> \o Repeat(<<"a", "b", "c", "d", "e">>, 14) \o <<"y">>

NameRepos == {RepoWidgets, RepoMyRepo, RepoOtherWidgets, RepoNoOwner, RepoDot,
              RepoUnderscore, RepoDash, RepoNested, RepoOddChars,
              RepoLongX, RepoLongY}

NamePRs == {0 - 5, 0, 7, 42, 100, 12345}

InitName ==
    /\ impl \in Impls
    /\ instances = [n \in Names |-> NoInstance]
    /\ \E pr \in [Procs -> NamePRs], repo \in [Procs -> NameRepos] :
         proc = [p \in Procs |->
                    [IdleProc EXCEPT !.pc = "name", !.action = "delete",
                                     !.pr = pr[p], !.repo = repo[p]]]
    /\ outputFile = <<>>
    /\ tmpDeploy = <<>>
    /\ prev = NoPrev
    /\ ninv = 0

\* delete_preview / create_preview: instance_name = self.get_instance_name(...)
DeriveName(p) ==
    /\ proc[p].pc = "name"
    /\ proc' = [proc EXCEPT ![p] =
           [proc[p] EXCEPT !.name = get_instance_name(proc[p].pr, proc[p].repo),
                           !.pc = "named"]]
    /\ UNCHANGED <<impl, instances, outputFile, tmpDeploy, prev, ninv>>

NextName == \E p \in Procs : DeriveName(p)

SpecName == InitName /\ [][NextName]_vars

(* ---------------------------------------------------------------------- *)
(* Properties                                                              *)
(* ---------------------------------------------------------------------- *)

Done(p) == proc[p].pc = "done"

SameTarget(r, q) == r.pr = q.pr /\ r.repo = q.repo

\* C1: a delete invocation whose delete call the provider answers with
\* not-found ends with exit code 0 and no exception, however many deletes
\* went before it.
C1_DeleteNotFoundSucceeds ==
    \A p \in Procs :
        (Done(p) /\ proc[p].action = "delete" /\ proc[p].delResp = "notfound")
            => proc[p].exit = 0 /\ proc[p].exc = ""

\* a second delete for the same PR, after a delete that already succeeded,
\* is answered not-found and succeeds
C1_RepeatedDelete ==
    \E p \in Procs :
        /\ Done(p) /\ proc[p].action = "delete" /\ proc[p].delResp = "notfound"
        /\ proc[p].exit = 0
        /\ prev.action = "delete" /\ prev.exit = 0 /\ SameTarget(prev, proc[p])

\* C2 as stated: over two successive create invocations for the same PR and
\* repository the create-VM call is issued at most once.
C2_CreateIssuedAtMostOnce ==
    \A p \in Procs :
        (proc[p].action = "create" /\ prev.action = "create"
            /\ SameTarget(prev, proc[p]))
            => prev.creates + proc[p].calls.create <= 1

\* C2 amended: over two successive create invocations for the same PR and
\* repository the create-VM call is accepted at most once, the second
\* invocation issues it only if the first one's was rejected or never issued,
\* and an invocation that observes the instance exists issues no create-VM
\* call, no readiness query and no set-ports call.
C2_CreateAcceptedAtMostOnce ==
    \A p \in Procs :
        /\ (proc[p].action = "create" /\ prev.action = "create"
               /\ SameTarget(prev, proc[p]))
              => /\ ~(prev.createResp = "ok" /\ proc[p].createResp = "ok")
                 /\ proc[p].calls.create = 1 => prev.createResp # "ok"
                 /\ prev.createResp = "ok" => proc[p].pc \notin {"create", "wait"}
        /\ proc[p].existed
              => /\ proc[p].calls.create = 0 /\ proc[p].calls.ports = 0
                 /\ proc[p].polls = 0 /\ proc[p].waited = ""
                 /\ proc[p].pc \in {"get_ip", "deploy", "report", "done"}

\* the second create finds the instance the first one created and goes on to
\* deployment without a create-VM call
C2_SecondCreateSkips ==
    \E p \in Procs :
        /\ proc[p].action = "create" /\ prev.action = "create"
        /\ SameTarget(prev, proc[p]) /\ prev.createResp = "ok"
        /\ proc[p].existed /\ proc[p].deployRun /\ proc[p].calls.create = 0

\* wait_for_instance has just returned an address
WaitReturned(p) == proc[p].pc = "firewall" /\ proc[p].waited = "ready"

\* wait_for_instance has given up
WaitGaveUp(p) == proc[p].waited = "timeout"

\* C3 as stated: the poll returns an address after K queries only when
\* K * interval < timeout.
C3_ReturnsOnlyIfKIntervalBelowTimeout ==
    \A p \in Procs :
        WaitReturned(p) => proc[p].polls * Interval < MaxWait

\* C3 amended: the poll returns the address after exactly K queries, K the
\* first query on which the provider reports running with a public address,
\* when that query starts inside the budget, (K-1) * (interval + call
\* latency) < timeout (K <= 30 with no latency), and otherwise signals
\* timeout without an address; the address returned is the one of a query
\* whose state is running.
C3_ReturnsAtFirstReadyQueryInBudget ==
    \A p \in Procs :
        /\ proc[p].polls >= 1
              => (proc[p].polls - 1) * (Interval + proc[p].latency) < MaxWait
        /\ proc[p].polls * Interval <= MaxWait
        /\ WaitReturned(p)
              => /\ proc[p].firstReady = proc[p].polls
                 /\ proc[p].polls >= 1
                 /\ proc[p].ipState = "running"
                 /\ proc[p].instance_ip = instances[proc[p].name].ip
                 /\ proc[p].instance_ip # NoIp
        /\ proc[p].pc = "wait" => proc[p].firstReady = 0
        /\ WaitGaveUp(p)
              => /\ proc[p].firstReady = 0
                 /\ proc[p].polls * (Interval + proc[p].latency) >= MaxWait
                 /\ proc[p].instance_ip = None
                 /\ proc[p].url = ""

\* the provider reports running with an address first on the 30th query and
\* the poll returns it
C3_ReadyOnLastQuery ==
    \E p \in Procs :
        WaitReturned(p) /\ proc[p].polls = 30 /\ proc[p].firstReady = 30
            /\ proc[p].instance_ip = "10.0.0.5"

\* C4: a create whose new instance does not become ready in the polling
\* budget exits with status 1 and leaves the instance in place: it issues no
\* delete, no set-ports call and no deployment.
C4_TimeoutLeavesInstance ==
    \A p \in Procs :
        WaitGaveUp(p)
            => /\ Done(p) /\ proc[p].exit = 1
               /\ proc[p].calls.delete = 0 /\ proc[p].calls.ports = 0
               /\ ~proc[p].deployRun /\ proc[p].url = ""
               /\ Present(proc[p].name)

\* a create that timed out on a pending instance
C4_TimedOut ==
    \E p \in Procs :
        /\ WaitGaveUp(p) /\ Done(p) /\ proc[p].createResp = "ok"
        /\ instances[proc[p].name].state = "pending"

\* C5: when the provider rejects the set-public-ports call the create
\* invocation still deploys, reports the URL and the outputs and exits 0.
C5_FirewallBestEffort ==
    \A p \in Procs :
        proc[p].portsResp = "error"
            => /\ proc[p].pc \in {"deploy", "report", "done"}
               /\ proc[p].pc \in {"report", "done"} => proc[p].deployRun
               /\ Done(p)
                     => /\ proc[p].exit = 0 /\ proc[p].exc = ""
                        /\ proc[p].url = "http://" \o instances[proc[p].name].ip \o "/"
                        /\ proc[p].ghOut
                              => Len(outputFile) = proc[p].outStart + 3

\* a create that ended after its set-public-ports call was rejected
C5_PortsRejected ==
    \E p \in Procs :
        Done(p) /\ proc[p].portsResp = "error" /\ proc[p].exit = 0 /\ proc[p].ghOut

\* what an invocation has appended to the output file
Appended(p) == SubSeq(outputFile, proc[p].outStart + 1, Len(outputFile))

\* C6: with the output path set, a create invocation appends the lines
\* preview_url=http://<address>/, instance_ip=<address>,
\* instance_name=<derived name> exactly when it exits 0, <address> being the
\* provider's public address of the instance; a failing or unfinished
\* invocation appends nothing.
C6_OutputsExactlyOnSuccess ==
    \A p \in Procs :
        (proc[p].action = "create" /\ proc[p].ghOut)
            => IF Done(p) /\ proc[p].exit = 0
               THEN Appended(p) =
                      << "preview_url=http://" \o instances[proc[p].name].ip \o "/",
                         "instance_ip=" \o instances[proc[p].name].ip,
                         "instance_name=" \o Str(get_instance_name(proc[p].pr,
                                                                   proc[p].repo)) >>
               ELSE Appended(p) = <<>>

\* pr=7, repo "acme/widgets", branch "feature-x", commit "abcdef1": the
\* created instance gets 10.0.0.5 and the outputs name it
C6_EndToEnd ==
    \E p \in Procs :
        /\ Done(p) /\ proc[p].exit = 0 /\ proc[p].createResp = "ok"
        /\ proc[p].pr = 7 /\ proc[p].repo = RepoWidgets
        /\ proc[p].branch = "feature-x" /\ proc[p].sha = "abcdef1"
        /\ outputFile = << "preview_url=http://10.0.0.5/",
                           "instance_ip=10.0.0.5",
                           "instance_name=pr-7-widgets" >>

\* C7: a create invocation without --branch or without --commit-sha exits
\* with status 1 and has issued no provider call.
C7_UsageErrorBeforeAnyCall ==
    \A p \in Procs :
        (proc[p].action = "create"
            /\ (proc[p].branch = None \/ proc[p].sha = None))
            => /\ Done(p) /\ proc[p].exit = 1
               /\ proc[p].calls = ZeroCalls /\ proc[p].polls = 0
               /\ proc[p].name = <<>>

\* a create without --commit-sha that has ended, the provider untouched
C7_MissingCommit ==
    \E p \in Procs :
        /\ Done(p) /\ proc[p].action = "create" /\ proc[p].sha = None
        /\ proc[p].branch = "feature-x" /\ proc[p].exit = 1

\* C8: a create that finds its instance existing does not fail because the
\* instance has no address yet, and reports a URL only for an address it saw
\* while the instance was running.
C8_ExistingInstanceIsPolled ==
    \A p \in Procs :
        (Done(p) /\ proc[p].action = "create" /\ proc[p].existed)
            => /\ proc[p].exc # "KeyError"
               /\ proc[p].exit = 0 => proc[p].ipState = "running"

\* C9: after a successful create on an existing instance, the instance runs
\* the repository and branch that invocation asked for.
C9_ExistingInstanceRedeployed ==
    \A p \in Procs :
        (Done(p) /\ proc[p].action = "create" /\ proc[p].existed
            /\ proc[p].exit = 0)
            => instances[proc[p].name].deployed = <<proc[p].repo, proc[p].branch>>

LowerCase == {"a", "b", "c", "d", "e", "f", "g", "h", "i", "j", "k", "l", "m",
              "n", "o", "p", "q", "r", "s", "t", "u", "v", "w", "x", "y", "z"}
UpperCase == {"A", "B", "C", "D", "E", "F", "G", "H", "I", "J", "K", "L", "M",
              "N", "O", "P", "Q", "R", "S", "T", "U", "V", "W", "X", "Y", "Z"}
Digits == {"0", "1", "2", "3", "4", "5", "6", "7", "8", "9"}

Chars(s) == {s[i] : i \in 1..Len(s)}

\* the characters a repository identifier is made of: owner/name over
\* letters, digits, '.', '_' and '-'
RepoAlphabet == LowerCase \cup UpperCase \cup Digits \cup {".", "_", "-", "/"}

Named(p) == proc[p].pc = "named"

\* C10 as stated, for repository identifiers over [A-Za-z0-9._/-]: the
\* derived name is at most 63 characters long and made of [a-z0-9-] only.
C10_NameIsLowerCaseSlug ==
    \A p \in Procs :
        (Named(p) /\ Chars(proc[p].repo) \subseteq RepoAlphabet)
            => /\ Len(proc[p].name) <= 63
               /\ Chars(proc[p].name) \subseteq LowerCase \cup Digits \cup {"-"}

\* C10 amended: the derived name is the same for the same inputs, is at most
\* 63 characters long, contains no '/', '_' or '.', and for a repository
\* identifier over [A-Za-z0-9._/-] is made of [A-Za-z0-9-] only: upper case
\* letters are kept.
C10_NameIsBoundedSlugKeepingCase ==
    /\ \A p \in Procs :
         Named(p) => /\ Len(proc[p].name) <= 63
                     /\ Chars(proc[p].name) \cap {"/", "_", "."} = {}
                     /\ Chars(proc[p].repo) \subseteq RepoAlphabet
                           => Chars(proc[p].name) \subseteq
                                  LowerCase \cup UpperCase \cup Digits \cup {"-"}
    /\ \A p, q \in Procs :
         (Named(p) /\ Named(q) /\ SameTarget(proc[p], proc[q]))
            => proc[p].name = proc[q].name

\* two derivations for the same repository of more than 63 characters: both
\* give the same name, cut to 63 characters
C10_LongRepoCut ==
    /\ proc[1].name = proc[2].name
    /\ Named(1) /\ Named(2)
    /\ proc[1].repo = RepoLongX /\ proc[2].repo = RepoLongX
    /\ proc[1].pr = 12345 /\ proc[2].pr = 12345
    /\ Len(proc[1].name) = 63 /\ Len(proc[1].repo) > 63

\* "pr-{pr_number}-"
NamePrefix(pr) == <<"p", "r", "-">> \o IntToStr(pr) \o <<"-">>

\* the character a character of the repository name becomes in the instance name
Dashed(c) == IF c \in {"_", "."} THEN "-" ELSE c

\* C11: the derived name is "pr-{prNumber}-" followed by the part of the
\* repository identifier after its last '/', each '_' and '.' replaced by
\* '-' and the case kept, the whole cut to its first 63 characters;
\* deriveName("my-org/My_Repo.App", 42) = "pr-42-My-Repo-App".
C11_NameIsPrefixedDashedSegment ==
    \A p \in Procs :
        Named(p) =>
            LET pre == NamePrefix(proc[p].pr)
                seg == LastSegment(proc[p].repo, "/")
                n == proc[p].name
            IN  /\ Len(n) = Min(63, Len(pre) + Len(seg))
                /\ \A i \in 1..Len(n) :
                      n[i] = IF i <= Len(pre) THEN pre[i]
                             ELSE Dashed(seg[i - Len(pre)])
                /\ (proc[p].pr = 42 /\ proc[p].repo = RepoMyRepo)
                      => Str(n) = "pr-42-My-Repo-App"
                /\ (proc[p].pr = 7 /\ proc[p].repo = RepoWidgets)
                      => Str(n) = "pr-7-widgets"
                /\ (proc[p].pr = 0 - 5 /\ proc[p].repo = RepoNested)
                      => Str(n) = "pr--5-repo"
                /\ (proc[p].pr = 0 /\ proc[p].repo = RepoDot)
                      => Str(n) = "pr-0-my-app"

\* the name derived for "my-org/My_Repo.App" and PR 42
C11_MyRepoApp ==
    \E p \in Procs :
        /\ Named(p) /\ proc[p].pr = 42 /\ proc[p].repo = RepoMyRepo
        /\ Str(proc[p].name) = "pr-42-My-Repo-App"

\* the steps a create invocation may take from one place to the next
CreateOrder == {<<"exists", "create">>, <<"exists", "get_ip">>, <<"exists", "done">>,
                <<"create", "wait">>, <<"create", "done">>,
                <<"wait", "firewall">>, <<"wait", "done">>,
                <<"firewall", "deploy">>, <<"get_ip", "deploy">>, <<"get_ip", "done">>,
                <<"deploy", "report">>, <<"report", "done">>}

\* what holds at each place of a create invocation for an absent instance
CreateStages ==
    \A p \in Procs :
        (proc[p].action = "create" /\ ~proc[p].existed)
            => /\ (proc[p].pc = "wait" \/ proc[p].polls >= 1)
                    => proc[p].createResp = "ok" /\ proc[p].calls.create = 1
               /\ (proc[p].calls.ports >= 1 \/ proc[p].deployRun
                      \/ proc[p].pc \in {"firewall", "deploy", "report"})
                    => /\ proc[p].waited = "ready" /\ proc[p].createResp = "ok"
                       /\ proc[p].ipState = "running"
                       /\ proc[p].instance_ip \notin {None, NoIp}
               /\ proc[p].deployRun => proc[p].calls.ports = 1
               /\ proc[p].url # "" => proc[p].deployRun /\ Done(p)

\* a delete that succeeded leaves no instance of its name
DeleteLeavesAbsent ==
    \A p \in Procs :
        (Done(p) /\ proc[p].action = "delete" /\ proc[p].exit = 0)
            => ~Present(proc[p].name)

\* C12: a create invocation for an absent instance goes absent -> creating
\* -> waiting-for-network -> deploying -> ready in that order only: the
\* create-VM call precedes every readiness query, ports are opened and
\* deployment started only after a query saw the instance running with an
\* address, the URL is reported only after deployment; and a successful
\* delete, whatever the state it finds, leaves the environment absent.
C12_CreateStepsInOrder ==
    /\ [](CreateStages /\ DeleteLeavesAbsent)
    /\ [][\A p \in Procs :
            (proc[p].action = "create" /\ proc[p].pc \notin {"idle", "done"}
                /\ proc'[p].pc # proc[p].pc)
                => <<proc[p].pc, proc'[p].pc>> \in CreateOrder]_vars

\* a delete accepted for an instance whose create timed out while it was
\* waiting for its address
C12_DeleteWhileWaitingForNetwork ==
    \E p \in Procs :
        /\ Done(p) /\ proc[p].action = "delete" /\ proc[p].delResp = "ok"
        /\ prev.action = "create" /\ prev.createResp = "ok" /\ prev.exit = 1
        /\ SameTarget(prev, proc[p]) /\ ~Present(proc[p].name)


\* C13: when the provider rejects the create-VM call the invocation has ended
\* with status 1 after that one create call, with no readiness query, no
\* open-ports call and no deployment; when it rejects the delete call for a
\* reason other than not-found the invocation has ended with status 1 after
\* that one delete call.  No invocation issues either call twice.
C13_RejectedCallFailsWithoutRetry ==
    \A p \in Procs :
        /\ proc[p].calls.create <= 1
        /\ proc[p].calls.delete <= 1
        /\ proc[p].createResp = "error" =>
              /\ Done(p) /\ proc[p].exit = 1 /\ proc[p].exc = ""
              /\ proc[p].calls.create = 1
              /\ proc[p].polls = 0 /\ proc[p].waited = ""
              /\ proc[p].calls.ports = 0
              /\ ~proc[p].deployRun /\ proc[p].url = ""
        /\ proc[p].delResp = "error" =>
              /\ Done(p) /\ proc[p].exit = 1 /\ proc[p].exc = ""
              /\ proc[p].calls.delete = 1

\* a create rejected by the provider, then a delete rejected by the provider
C13_BothRejected ==
    \E p \in Procs :
        /\ Done(p) /\ proc[p].action = "delete"
        /\ proc[p].delResp = "error" /\ proc[p].exit = 1
        /\ prev.action = "create" /\ prev.createResp = "error" /\ prev.exit = 1


\* ceil(timeout / interval): the readiness queries one wait can issue
MaxPolls == (MaxWait + Interval - 1) \div Interval

Running(p) == proc[p].pc \notin {"idle", "done"}

\* C17: every readiness query but the one that returns the address uses up
\* at least one interval of the budget, so the poll never issues more than 30 queries; a wait that times out with
\* calls of no latency has issued exactly 30; and every invocation that has
\* started exits.
C17_InvocationTerminates ==
    /\ [](\A p \in Procs :
            /\ ~WaitReturned(p) => proc[p].elapsed >= proc[p].polls * 10
            /\ proc[p].polls <= MaxPolls
            /\ MaxPolls = 30
            /\ (WaitGaveUp(p) /\ proc[p].latency = 0) => proc[p].polls = MaxPolls)
    /\ \A p \in Procs : Running(p) ~> Done(p)

\* thirty queries, an error among them, then the exit with status 1
C17_ThirtyQueriesThenExit ==
    \E p \in Procs :
        /\ Done(p) /\ WaitGaveUp(p) /\ proc[p].exit = 1
        /\ proc[p].polls = 30 /\ proc[p].pollErr = "error"


\* the part of the repository identifier after its last "/", with "_" and "."
\* read as "-", as far as it fits behind the prefix of PR number pr
SegmentInName(pr, repo) ==
    LET seg == LastSegment(repo, "/")
    IN  Prefix([i \in 1..Len(seg) |-> Dashed(seg[i])], 63 - Len(NamePrefix(pr)))

\* repository identifiers that differ only in owner, only in "_" versus "."
\* versus "-", or only beyond the cut
Lookalikes ==
    {<<RepoWidgets, RepoOtherWidgets>>, <<RepoWidgets, RepoNoOwner>>,
     <<RepoDot, RepoUnderscore>>, <<RepoDot, RepoDash>>,
     <<RepoUnderscore, RepoDash>>, <<RepoLongX, RepoLongY>>}

TargetOf(pr) == IF pr = 7 THEN "pr-7-widgets" ELSE "pr-42-My-Repo-App"

\* C19: an invocation works on the name derived from its own PR number and
\* repository; a delete invocation issues one delete call at most, exactly
\* one by its end, and no other call; a create invocation issues no delete
\* call; a step of the script changes no instance of another name.
C19_OnlyOwnInstanceTouched ==
    /\ [](\A p \in Procs :
            /\ proc[p].name # <<>> => Str(proc[p].name) = TargetOf(proc[p].pr)
            /\ proc[p].action = "delete" =>
                  /\ proc[p].calls.get = 0 /\ proc[p].calls.create = 0
                  /\ proc[p].calls.ports = 0 /\ proc[p].polls = 0
                  /\ proc[p].calls.delete <= 1
                  /\ Done(p) => proc[p].calls.delete = 1
            /\ proc[p].action = "create" => proc[p].calls.delete = 0)
    /\ [][\A n \in Names :
            (proc' # proc /\ instances'[n] # instances[n]) =>
                \E p \in Procs : proc'[p] # proc[p] /\ proc[p].name = n]_vars

\* PR 7 is deleted while the instance created for PR 42 stays
C19_OtherPreviewKept ==
    \E p, q \in Procs :
        /\ Done(p) /\ proc[p].action = "delete" /\ proc[p].pr = 7
        /\ proc[p].calls.delete = 1
        /\ proc[q].action = "create" /\ proc[q].pr = 42
        /\ proc[q].createResp = "ok"
        /\ Present(get_instance_name(42, RepoMyRepo))


\* C14: an invocation whose readiness poll got an error, not-found included,
\* is still polling, or its wait has returned the address, or it has ended
\* with status 1 on a budget used up, never on an exception; while the budget
\* lasts a turn of the poll is one more query followed by the return of the
\* address or by a sleep of one interval; a wait that returned the address
\* ends in success.
C14_PollErrorsNeverAbort ==
    /\ [](\A p \in Procs :
            /\ proc[p].pollErr # "" =>
                  \/ proc[p].pc = "wait"
                  \/ WaitReturned(p)
                  \/ /\ Done(p) /\ WaitGaveUp(p)
                     /\ proc[p].exit = 1 /\ proc[p].exc = ""
                     /\ ~(proc[p].elapsed < 300)
            /\ (Done(p) /\ proc[p].waited = "ready") => proc[p].exit = 0)
    /\ [][\A p \in Procs :
            (proc[p].pc = "wait" /\ proc[p].elapsed < 300
               /\ (proc'[p].pc # "wait" \/ proc'[p].polls # proc[p].polls)) =>
                /\ proc'[p].polls = proc[p].polls + 1
                /\ \/ proc'[p].pc = "firewall" /\ proc'[p].waited = "ready"
                   \/ /\ proc'[p].pc = "wait"
                      /\ proc'[p].elapsed
                           = proc[p].elapsed + proc[p].latency + 10]_vars

\* the wait returns the address although an earlier query of it was rejected
C14_ReadyAfterRejectedQuery ==
    \E p \in Procs :
        /\ WaitReturned(p) /\ proc[p].pollErr = "error"
        /\ proc[p].polls > 1 /\ proc[p].firstReady = proc[p].polls

\* the create invocation's exit with status 0 leaves the instance present,
\* with the address the invocation reports
ExitsOnLiveInstance(p) ==
    (/\ proc[p].action = "create" /\ proc[p].pc # "done"
     /\ proc'[p].pc = "done" /\ proc'[p].exit = 0)
        => /\ instances'[proc[p].name].state # "absent"
           /\ instances'[proc[p].name].ip = proc'[p].instance_ip
           /\ proc'[p].url = "http://" \o proc'[p].instance_ip \o "/"

\* C15: a create invocation during which no delete call for the same name
\* is issued exits with status 0 only with the instance present under the
\* address it reports.
C15_SerializedCreateEndsPresent ==
    [][\A p \in Procs : ~proc'[p].overlapped => ExitsOnLiveInstance(p)]_vars

\* a delete call lands during the create invocation for the same name, which
\* still exits with status 0 and a preview URL: the instance is gone
C15_CreateReportsDeletedInstance ==
    /\ Done(1) /\ proc[1].action = "create" /\ proc[1].exit = 0
    /\ proc[1].url # "" /\ Len(outputFile) = 3
    /\ proc[1].overlapped
    /\ Done(2) /\ proc[2].action = "delete" /\ proc[2].delResp = "ok"
    /\ proc[2].name = proc[1].name
    /\ ~Present(proc[1].name)


\* the provider calls an invocation has issued so far
CallsOf(r) == <<r.calls.get + r.polls, r.calls.create, r.calls.ports, r.calls.delete>>

====
